---- MODULE Spec2Model ----
(***************************************************************************)
(* Model of the service-request page (OurServicePage): the status filter,  *)
(* the group-by-user step, the pagination over groups, the tab badges, and *)
(* the accept / decline / delete handlers with the confirmation dialog.    *)
(***************************************************************************)
EXTENDS Integers, Sequences, FiniteSets, TLC

(***************************************************************************)
(* Bounds of the model.                                                    *)
(***************************************************************************)
\* longest request list enumerated exhaustively over the whole request domain
MaxLen == 2
\* longest generated (patterned) request list
MaxRequests == 26
\* most accept / decline / delete clicks handled in one behaviour
MaxMutations == 1

(***************************************************************************)
(* JavaScript values, as far as the page looks at them.                    *)
(***************************************************************************)
Undefined == [t |-> "undefined"]
Null == [t |-> "null"]
Str(s) == [t |-> "string", v |-> s]
Obj(id) == [t |-> "object", _id |-> id]

\* typeof x: null is reported as "object"
TypeOf(x) == IF x.t = "null" THEN "object" ELSE x.t

TruthyEmptyString(x) == x.t = "object" \/ x.t = "string"

\* x || y takes y for undefined, null and the empty string
Truthy(x) == x.t = "object" \/ (x.t = "string" /\ x.v # "")

(***************************************************************************)
(* Enumerations.                                                           *)
(***************************************************************************)
ServiceStatusPending == "pending"
ServiceStatusAccept == "accept"
ServiceStatusDecline == "decline"
ServiceStatus == {ServiceStatusPending, ServiceStatusAccept, ServiceStatusDecline}

TabStatusPending == "pending"
TabStatusAccept == "accept"
TabStatusDecline == "decline"
TabStatusDone == "done"
TabStatus == {TabStatusPending, TabStatusAccept, TabStatusDecline, TabStatusDone}

DeliveryStatusStarted == Str("started")
DeliveryStatusDone == Str("done")

ServiceTabs == {"POP", "COCP"}

localLimit == 10

(***************************************************************************)
(* Requests (Pop | Cocp) as the API returns them.                          *)
(***************************************************************************)
\* the shapes a request's userId takes in a response
UserRefs ==
    { Undefined, Null, Str(""), Str("A"), Str("B"), Obj(Str("A")),
      Obj(Undefined) }

Request(id, user, status, delivery) ==
    [_id |-> id, userId |-> user, status |-> status, deliveryStatus |-> delivery]

\* the (status, deliveryStatus) pairs enumerated
StatusShapes ==
    { <<ServiceStatusPending, Undefined>>,
      <<ServiceStatusPending, DeliveryStatusDone>>,
      <<ServiceStatusDecline, Undefined>>,
      <<ServiceStatusAccept, Undefined>>,
      <<ServiceStatusAccept, DeliveryStatusStarted>>,
      <<ServiceStatusAccept, DeliveryStatusDone>> }

RequestShapes == { <<u, sd[1], sd[2]>> : u \in UserRefs, sd \in StatusShapes }

\* a list of n requests whose ids are their positions
ListOf(shapes) ==
    [i \in DOMAIN shapes |->
        Request(i, shapes[i][1], shapes[i][2], shapes[i][3])]

RECURSIVE ShapeSeqs(_)
ShapeSeqs(n) ==
    IF n = 0 THEN { <<>> }
    ELSE LET shorter == ShapeSeqs(n - 1)
         IN  shorter \cup
             { Append(s, x) : s \in { t \in shorter : Len(t) = n - 1 },
                              x \in RequestShapes }

ShortLists == { ListOf(s) : s \in ShapeSeqs(MaxLen) }

UserNames ==
    << "u01", "u02", "u03", "u04", "u05", "u06", "u07", "u08", "u09", "u10",
       "u11", "u12", "u13", "u14", "u15", "u16", "u17", "u18", "u19", "u20",
       "u21", "u22", "u23", "u24", "u25", "u26", "u27", "u28" >>

\* user number j as the API sends it: embedded summary or bare identifier
UserRefOf(j) ==
    IF j % 2 = 0 THEN Obj(Str(UserNames[j + 1])) ELSE Str(UserNames[j + 1])

\* status patterns of the generated lists: (status, deliveryStatus) by position
Patterns ==
    << << <<ServiceStatusPending, Undefined>> >>,
       << <<ServiceStatusPending, Undefined>>,
          <<ServiceStatusAccept, DeliveryStatusDone>> >>,
       << <<ServiceStatusAccept, Undefined>>,
          <<ServiceStatusAccept, DeliveryStatusStarted>>,
          <<ServiceStatusAccept, DeliveryStatusDone>> >>,
       << <<ServiceStatusDecline, Undefined>> >> >>

\* n requests over k users (request i belongs to user (i-1) mod k)
Gen(n, k, c) ==
    [i \in 1..n |->
        LET pat == Patterns[c]
            sd  == pat[((i - 1) % Len(pat)) + 1]
        IN  Request(i, UserRefOf((i - 1) % k), sd[1], sd[2])]

Min(a, b) == IF a < b THEN a ELSE b
Max(a, b) == IF a < b THEN b ELSE a

LongLists ==
    { Gen(n, k, c) : n \in 3..Min(MaxRequests, Len(UserNames)),
                     k \in {1, 2, 3, 11, 21, 25, 26, 27},
                     c \in DOMAIN Patterns }

VARIABLES
    activeServiceTab,   \* "POP" | "COCP"
    activeStatusTab,    \* TabStatus
    popPage, cocpPage,  \* 1-indexed page of each category
    query,              \* per category: the list query hook's result
    server,             \* per category: the request list held by the API
    swal,               \* the dialog on screen
    swalResult,         \* the last result a confirmation dialog resolved with
    mutations,          \* accept / decline / delete calls in flight, each
                        \* with the category shown when it was dispatched
    toast,              \* the last message surfaced
    started,            \* accept / decline / delete clicks handled so far
    pageBeforeReset     \* the shown category's page before the last tab change

vars == << activeServiceTab, activeStatusTab, popPage, cocpPage, query, server,
           swal, swalResult, mutations, toast, started, pageBeforeReset >>

(***************************************************************************)
(* Derived state of one render.                                            *)
(***************************************************************************)
isLoading == query[activeServiceTab].isLoading
isFetching == query[activeServiceTab].isFetching
isError == query[activeServiceTab].isError
responseData == query[activeServiceTab].data

\* responseData?.data || []
allRequests == IF responseData.t = "undefined" THEN <<>> ELSE responseData.data

FilterByDoneAnyStatus(requests, tab) ==
    SelectSeq(requests, LAMBDA req :
        CASE tab = TabStatusPending -> req.status = ServiceStatusPending
          [] tab = TabStatusDecline -> req.status = ServiceStatusDecline
          [] tab = TabStatusAccept ->
                req.status = ServiceStatusAccept
                /\ req.deliveryStatus # DeliveryStatusDone
          [] tab = TabStatusDone -> req.deliveryStatus = DeliveryStatusDone
          [] OTHER -> FALSE)

FilterByAcceptKeepsDone(requests, tab) ==
    SelectSeq(requests, LAMBDA req :
        CASE tab = TabStatusPending -> req.status = ServiceStatusPending
          [] tab = TabStatusDecline -> req.status = ServiceStatusDecline
          [] tab = TabStatusAccept -> req.status = ServiceStatusAccept
          [] tab = TabStatusDone ->
                req.status = ServiceStatusAccept
                /\ req.deliveryStatus = DeliveryStatusDone
          [] OTHER -> FALSE)

\* the predicate of allRequests.filter, for the tab given
FilterBy(requests, tab) ==
    SelectSeq(requests, LAMBDA req :
        CASE tab = TabStatusPending -> req.status = ServiceStatusPending
          [] tab = TabStatusDecline -> req.status = ServiceStatusDecline
          [] tab = TabStatusAccept ->
                req.status = ServiceStatusAccept
                /\ req.deliveryStatus # DeliveryStatusDone
          [] tab = TabStatusDone ->
                req.status = ServiceStatusAccept
                /\ req.deliveryStatus = DeliveryStatusDone
          [] OTHER -> FALSE)

filteredRequests == FilterBy(allRequests, activeStatusTab)

\* typeof user === "object" ? user : { _id: user }
getUser(user) == IF TypeOf(user) = "object" THEN user ELSE Obj(user)

\* the Map of the grouping step: entries in insertion order
NoGroups == [threw |-> FALSE, groups |-> <<>>]

IndexOfKey(groups, key) ==
    LET hits == { i \in DOMAIN groups : groups[i].key = key }
    IN  IF hits = {} THEN 0 ELSE CHOOSE i \in hits : TRUE

\* one pass of the forEach callback; reading _id of null throws
GroupStep(acc, req) ==
    IF acc.threw THEN acc
    ELSE LET user == getUser(req.userId)
         IN  IF user.t = "null" THEN [threw |-> TRUE, groups |-> <<>>]
             ELSE LET userId == IF Truthy(user._id) THEN user._id.v ELSE "unknown"
                      at     == IndexOfKey(acc.groups, userId)
                      groups == IF at = 0
                                THEN Append(acc.groups,
                                        [key |-> userId, user |-> user,
                                         requests |-> <<>>])
                                ELSE acc.groups
                      slot   == IF at = 0 THEN Len(groups) ELSE at
                  IN  [threw |-> FALSE,
                       groups |-> [groups EXCEPT ![slot].requests =
                                      Append(@, req)]]

RECURSIVE GroupFold(_, _, _)
GroupFold(acc, requests, i) ==
    IF i > Len(requests) THEN acc
    ELSE GroupFold(GroupStep(acc, requests[i]), requests, i + 1)

GroupRequests(requests) == GroupFold(NoGroups, requests, 1)

\* the useMemo over filteredRequests
grouping == GroupRequests(filteredRequests)

\* the render throws when the grouping step does
renderThrows == grouping.threw

\* Array.from(groups.values())
groupedRequests == grouping.groups

currentPage == IF activeServiceTab = "POP" THEN popPage ELSE cocpPage

totalGroups == Len(groupedRequests)

CeilOfNextMultiple(a, b) == (a \div b) + 1

\* Math.ceil(a / b) for a >= 0, b > 0
Ceil(a, b) == (a + b - 1) \div b

totalPage == Ceil(totalGroups, localLimit)

\* array.slice(from, to) for 0 <= from <= to
Slice(seq, from, to) ==
    LET hi == Min(to, Len(seq))
    IN  IF from >= hi THEN <<>> ELSE [i \in 1..(hi - from) |-> seq[from + i]]

PageSliceFromPageIndex(groups, page) ==
    Slice(groups, page * localLimit, page * localLimit + localLimit)

PageSliceOneMore(groups, page) ==
    Slice(groups, (page - 1) * localLimit, page * localLimit + 1)

\* startIndex, endIndex and the slice, for the page given
PageSlice(groups, page) ==
    LET startIndex == (page - 1) * localLimit
        endIndex   == startIndex + localLimit
    IN  Slice(groups, startIndex, endIndex)

groupsToDisplay == PageSlice(groupedRequests, currentPage)

getTabCountOfGroups(status) ==
    Len(GroupRequests(FilterBy(allRequests, status)).groups)

\* the badge number of a status tab
getTabCount(status) ==
    CASE status = TabStatusPending ->
            Len(SelectSeq(allRequests,
                    LAMBDA r : r.status = ServiceStatusPending))
      [] status = TabStatusDecline ->
            Len(SelectSeq(allRequests,
                    LAMBDA r : r.status = ServiceStatusDecline))
      [] status = TabStatusAccept ->
            Len(SelectSeq(allRequests,
                    LAMBDA r : r.status = ServiceStatusAccept
                               /\ r.deliveryStatus # DeliveryStatusDone))
      [] status = TabStatusDone ->
            Len(SelectSeq(allRequests,
                    LAMBDA r : r.status = ServiceStatusAccept
                               /\ r.deliveryStatus = DeliveryStatusDone))
      [] OTHER -> 0

viewEmptyBeforeError ==
    IF renderThrows THEN "crash"
    ELSE IF isLoading THEN "loading"
    ELSE IF Len(groupsToDisplay) = 0 THEN "empty"
    ELSE IF isError THEN "error"
    ELSE "table"

\* which branch of the grouped view is rendered
view ==
    IF renderThrows THEN "crash"
    ELSE IF isLoading THEN "loading"
    ELSE IF isError THEN "error"
    ELSE IF Len(groupsToDisplay) = 0 THEN "empty"
    ELSE "table"

\* the request rows on screen
displayedRequests ==
    IF view # "table" THEN {}
    ELSE UNION { { groupsToDisplay[g].requests[i] :
                     i \in DOMAIN groupsToDisplay[g].requests } :
                 g \in DOMAIN groupsToDisplay }

\* the identifiers of the fetched requests
RequestIds == { allRequests[i]._id : i \in DOMAIN allRequests }

\* the pagination controls are rendered
paginationShown == ~renderThrows /\ ~isLoading /\ ~isError /\ totalPage > 1

(***************************************************************************)
(* The list queries (useGetPopsQuery / useGetCocpsQuery).                  *)
(***************************************************************************)
Response(list) == [t |-> "response", data |-> list]

\* a query that has not run: skipped, or never subscribed
QuerySkipped ==
    [data |-> Undefined, isLoading |-> FALSE, isFetching |-> FALSE,
     isError |-> FALSE]

\* a query whose request is in flight; isLoading only while there is no data
QueryStarted(q) ==
    [data |-> q.data, isLoading |-> (q.data = Undefined), isFetching |-> TRUE,
     isError |-> FALSE]

\* a list with every status, embedded and bare user references, and a
\* request without a user identifier
MixedList ==
    << Request(1, Obj(Str("A")), ServiceStatusPending, Undefined),
       Request(2, Str("B"), ServiceStatusAccept, DeliveryStatusStarted),
       Request(3, Str("A"), ServiceStatusAccept, DeliveryStatusDone),
       Request(4, Undefined, ServiceStatusDecline, Undefined) >>

\* a list with a request whose user reference is null
NullUserList ==
    << Request(1, Str("A"), ServiceStatusPending, Undefined),
       Request(2, Null, ServiceStatusAccept, DeliveryStatusStarted),
       Request(3, Obj(Str("")), ServiceStatusDecline, Undefined) >>

\* the request lists the API may hold when the page is opened
ServerStates ==
    { [c \in ServiceTabs |-> IF c = "POP" THEN Gen(11, 11, 4) ELSE <<>>],
      [c \in ServiceTabs |-> IF c = "POP" THEN MixedList ELSE NullUserList] }

Init ==
    /\ activeServiceTab = "POP"
    /\ activeStatusTab = TabStatusPending
    /\ popPage = 1
    /\ cocpPage = 1
    /\ query = [c \in ServiceTabs |->
                    IF c = "POP" THEN QueryStarted(QuerySkipped) ELSE QuerySkipped]
    /\ server \in ServerStates
    /\ swal = [kind |-> "none"]
    /\ swalResult = "none"
    /\ mutations = {}
    /\ toast = "none"
    /\ started = 0
    /\ pageBeforeReset = 0

\* the page reacts to clicks: it rendered, and no dialog covers it
Clickable == swal.kind = "none" /\ ~renderThrows

(***************************************************************************)
(* Event handlers.                                                         *)
(***************************************************************************)
\* the query of the tab shown is subscribed: it runs unless it is running or
\* has a result
ServiceTabChanged(tab) ==
    /\ activeServiceTab' = tab
    /\ pageBeforeReset' = (IF tab = "POP" THEN popPage ELSE cocpPage)
    /\ popPage' = 1
    /\ cocpPage' = 1
    /\ query' = IF ~query[tab].isFetching /\ query[tab].data = Undefined
                THEN [query EXCEPT ![tab] = QueryStarted(@)]
                ELSE query
    /\ UNCHANGED << activeStatusTab, server, swal, swalResult, mutations,
                    toast, started >>

\* a service tab is clicked on the page
handleServiceTabChange(tab) ==
    /\ Clickable
    /\ ServiceTabChanged(tab)

\* a service tab is activated while the confirmation dialog is still open
handleServiceTabChangeUnderDialog(tab) ==
    /\ swal.kind = "confirm"
    /\ ~renderThrows
    /\ ServiceTabChanged(tab)

handleStatusTabChangeOtherPage(status) ==
    /\ Clickable
    /\ activeStatusTab' = status
    /\ pageBeforeReset' = currentPage
    /\ IF activeServiceTab = "POP"
       THEN cocpPage' = 1 /\ UNCHANGED popPage
       ELSE popPage' = 1 /\ UNCHANGED cocpPage
    /\ UNCHANGED << activeServiceTab, query, server, swal, swalResult,
                    mutations, toast, started >>

handleStatusTabChange(status) ==
    /\ Clickable
    /\ activeStatusTab' = status
    /\ pageBeforeReset' = currentPage
    /\ IF activeServiceTab = "POP"
       THEN popPage' = 1 /\ UNCHANGED cocpPage
       ELSE cocpPage' = 1 /\ UNCHANGED popPage
    /\ UNCHANGED << activeServiceTab, query, server, swal, swalResult,
                    mutations, toast, started >>

\* setPage of the active category
setPage(p) ==
    IF activeServiceTab = "POP"
    THEN popPage' = p /\ UNCHANGED cocpPage
    ELSE cocpPage' = p /\ UNCHANGED popPage

\* the Previous button
PreviousPage ==
    /\ Clickable
    /\ paginationShown
    /\ ~(currentPage = 1 \/ isFetching)
    /\ setPage(Max(1, currentPage - 1))
    /\ UNCHANGED << activeServiceTab, activeStatusTab, query, server, swal,
                    swalResult, mutations, toast, started,
                    pageBeforeReset >>

\* the Next button
NextPage ==
    /\ Clickable
    /\ paginationShown
    /\ ~(currentPage = totalPage \/ isFetching)
    /\ setPage(Min(totalPage, currentPage + 1))
    /\ UNCHANGED << activeServiceTab, activeStatusTab, query, server, swal,
                    swalResult, mutations, toast, started,
                    pageBeforeReset >>

\* isUpdatingPop || isUpdatingCocp
isUpdatingStatus == \E m \in mutations : m.kind = "update"

AcceptDeclineOfferedAnyStatus(req) == TRUE

\* the action cell of a row shows Accept and Decline
AcceptDeclineOffered(req) == req.status = ServiceStatusPending

DeleteOfferedAnyStatus(req) == TRUE

\* the action cell of a row shows Delete
DeleteOffered(req) ==
    req.status = ServiceStatusAccept \/ req.status = ServiceStatusDecline

\* a click on Accept or Decline of a row
handleStatusUpdate(id, status) ==
    /\ started < MaxMutations
    /\ ~isUpdatingStatus
    /\ Clickable
    /\ \E req \in displayedRequests : req._id = id /\ AcceptDeclineOffered(req)
    /\ mutations' = mutations \cup
          { [kind |-> "update", endpoint |-> activeServiceTab, id |-> id,
             status |-> status, shown |-> activeServiceTab] }
    /\ started' = started + 1
    /\ UNCHANGED << activeServiceTab, activeStatusTab, popPage, cocpPage, query,
                    server, swal, swalResult, toast,
                    pageBeforeReset >>

\* a click on Delete of a row: the confirmation dialog opens
handleDelete(id) ==
    /\ started < MaxMutations
    /\ Clickable
    /\ \E req \in displayedRequests : req._id = id /\ DeleteOffered(req)
    /\ swal' = [kind |-> "confirm", id |-> id, tab |-> activeServiceTab]
    /\ swalResult' = "none"
    /\ started' = started + 1
    /\ UNCHANGED << activeServiceTab, activeStatusTab, popPage, cocpPage, query,
                    server, mutations, toast,
                    pageBeforeReset >>

SwalThenAlways(isConfirmed) ==
    /\ swal.kind = "confirm"
    /\ swal' = [kind |-> "none"]
    /\ swalResult' = IF isConfirmed THEN "confirmed" ELSE "dismissed"
    /\ mutations' = mutations \cup
            { [kind |-> "delete", endpoint |-> swal.tab, id |-> swal.id,
               status |-> "none", shown |-> activeServiceTab] }
    /\ UNCHANGED << activeServiceTab, activeStatusTab, popPage, cocpPage, query,
                    server, toast, started,
                    pageBeforeReset >>

SwalThenCurrentTab(isConfirmed) ==
    /\ swal.kind = "confirm"
    /\ swal' = [kind |-> "none"]
    /\ swalResult' = IF isConfirmed THEN "confirmed" ELSE "dismissed"
    /\ mutations' =
         IF isConfirmed
         THEN mutations \cup
                { [kind |-> "delete", endpoint |-> activeServiceTab,
                   id |-> swal.id, status |-> "none",
                   shown |-> activeServiceTab] }
         ELSE mutations
    /\ UNCHANGED << activeServiceTab, activeStatusTab, popPage, cocpPage, query,
                    server, toast, started,
                    pageBeforeReset >>

\* the dialog resolves: confirmed, or cancelled / dismissed
SwalThen(isConfirmed) ==
    /\ swal.kind = "confirm"
    /\ swal' = [kind |-> "none"]
    /\ swalResult' = IF isConfirmed THEN "confirmed" ELSE "dismissed"
    /\ mutations' =
         IF isConfirmed
         THEN mutations \cup
                { [kind |-> "delete", endpoint |-> swal.tab, id |-> swal.id,
                   status |-> "none", shown |-> activeServiceTab] }
         ELSE mutations
    /\ UNCHANGED << activeServiceTab, activeStatusTab, popPage, cocpPage, query,
                    server, toast, started,
                    pageBeforeReset >>

\* the "Deleted!" dialog is closed
SwalDeletedClosed ==
    /\ swal.kind = "deleted"
    /\ swal' = [kind |-> "none"]
    /\ UNCHANGED << activeServiceTab, activeStatusTab, popPage, cocpPage, query,
                    server, swalResult, mutations, toast, started,
                    pageBeforeReset >>

(***************************************************************************)
(* Results arriving from the API.                                          *)
(***************************************************************************)
\* the list request of a category succeeds with the list the API holds
QueryFulfilled(cat) ==
    /\ query[cat].isFetching
    /\ query' = [query EXCEPT ![cat] =
                    [data |-> Response(server[cat]), isLoading |-> FALSE,
                     isFetching |-> FALSE, isError |-> FALSE]]
    /\ UNCHANGED << activeServiceTab, activeStatusTab, popPage, cocpPage, server,
                    swal, swalResult, mutations, toast, started,
                    pageBeforeReset >>

\* the list request of a category fails
QueryRejected(cat) ==
    /\ query[cat].isFetching
    /\ query' = [query EXCEPT ![cat] =
                    [data |-> @.data, isLoading |-> FALSE,
                     isFetching |-> FALSE, isError |-> TRUE]]
    /\ UNCHANGED << activeServiceTab, activeStatusTab, popPage, cocpPage, server,
                    swal, swalResult, mutations, toast, started,
                    pageBeforeReset >>

\* the API applies an accept / decline / delete to the list it holds
Applied(list, m) ==
    IF m.kind = "delete"
    THEN SelectSeq(list, LAMBDA r : r._id # m.id)
    ELSE [i \in DOMAIN list |->
            IF list[i]._id = m.id
            THEN [list[i] EXCEPT !.status = m.status]
            ELSE list[i]]

\* a call succeeds: success message, the "Deleted!" dialog after a delete
\* (it replaces a dialog still open, which resolves as dismissed), and the
\* list of the endpoint is invalidated and fetched again while it is shown
MutationFulfilled(m) ==
    /\ m \in mutations
    /\ \E i \in DOMAIN server[m.endpoint] : server[m.endpoint][i]._id = m.id
    /\ server' = [server EXCEPT ![m.endpoint] = Applied(@, m)]
    /\ mutations' = mutations \ {m}
    /\ toast' = "success"
    /\ swal' = IF m.kind = "delete" THEN [kind |-> "deleted"] ELSE swal
    /\ swalResult' = IF m.kind = "delete" /\ swal.kind = "confirm"
                     THEN "dismissed" ELSE swalResult
    /\ query' = [query EXCEPT ![m.endpoint] =
                    IF activeServiceTab = m.endpoint
                    THEN QueryStarted(@) ELSE QuerySkipped]
    /\ UNCHANGED << activeServiceTab, activeStatusTab, popPage, cocpPage,
                    started,
                    pageBeforeReset >>

catchErrorResetsPages ==
    /\ toast' = "error"
    /\ popPage' = 1
    /\ cocpPage' = 1
    /\ UNCHANGED << activeServiceTab, activeStatusTab, query, swal, swalResult,
                    started, pageBeforeReset >>

\* the catch block of handleStatusUpdate and of handleDelete: toast.error
catchError ==
    /\ toast' = "error"
    /\ UNCHANGED << activeServiceTab, activeStatusTab, popPage, cocpPage, query,
                    swal, swalResult, started, pageBeforeReset >>

\* a call fails: the API keeps its list, the handler's catch block runs
MutationRejected(m) ==
    /\ m \in mutations
    /\ mutations' = mutations \ {m}
    /\ UNCHANGED server
    /\ catchError

Next ==
    \/ \E tab \in ServiceTabs : handleServiceTabChange(tab)
    \/ \E status \in TabStatus : handleStatusTabChange(status)
    \/ PreviousPage
    \/ NextPage
    \/ \E id \in RequestIds, status \in {"accept", "decline"} :
          handleStatusUpdate(id, status)
    \/ \E id \in RequestIds : handleDelete(id)
    \/ \E isConfirmed \in BOOLEAN : SwalThen(isConfirmed)
    \/ SwalDeletedClosed
    \/ \E cat \in ServiceTabs : QueryFulfilled(cat)
    \/ \E cat \in ServiceTabs : QueryRejected(cat)
    \/ \E m \in mutations : MutationFulfilled(m)
    \/ \E m \in mutations : MutationRejected(m)

Spec == Init /\ [][Next]_vars

(***************************************************************************)
(* The page with the service tabs reachable while the confirmation dialog  *)
(* of a delete is open.                                                    *)
(***************************************************************************)
NextRace ==
    \/ Next
    \/ \E tab \in ServiceTabs : handleServiceTabChangeUnderDialog(tab)

SpecRace == Init /\ [][NextRace]_vars

(***************************************************************************)
(* The aggregator alone: one fetched list out of a wide set, and the view  *)
(* state changed by the tabs and the page buttons.                         *)
(***************************************************************************)
RequestLists == ShortLists \cup LongLists

InitAgg ==
    /\ activeServiceTab = "POP"
    /\ activeStatusTab = TabStatusPending
    /\ popPage = 1
    /\ cocpPage = 1
    /\ \E list \in RequestLists :
          /\ server = [c \in ServiceTabs |-> IF c = "POP" THEN list ELSE <<>>]
          /\ query = [c \in ServiceTabs |->
                        IF c = "POP"
                        THEN [data |-> Response(list), isLoading |-> FALSE,
                              isFetching |-> FALSE, isError |-> FALSE]
                        ELSE QuerySkipped]
    /\ swal = [kind |-> "none"]
    /\ swalResult = "none"
    /\ mutations = {}
    /\ toast = "none"
    /\ started = 0
    /\ pageBeforeReset = 0

NextAgg ==
    \/ \E status \in TabStatus : handleStatusTabChange(status)
    \/ PreviousPage
    \/ NextPage

SpecAgg == InitAgg /\ [][NextAgg]_vars

(***************************************************************************)
(* Properties.                                                             *)
(***************************************************************************)
Range(seq) == { seq[i] : i \in DOMAIN seq }

\* the rule of a status tab, from the filtering table
TabRule(R, tab) ==
    \/ tab = "pending" /\ R.status = "pending"
    \/ tab = "decline" /\ R.status = "decline"
    \/ tab = "accept" /\ R.status = "accept" /\ R.deliveryStatus # Str("done")
    \/ tab = "done" /\ R.status = "accept" /\ R.deliveryStatus = Str("done")

\* C1: for every status tab, a fetched request is in the filtered list of the
\* tab exactly when it meets the rule of the tab (Pending: status pending;
\* Declined: status decline; Accepted: status accept and delivery not done,
\* absent included; Delivery Done: status accept and delivery done); the
\* filtered list holds fetched requests only, each once.
C1_FilterMembership ==
    /\ \A tab \in TabStatus :
          LET filtered == FilterBy(allRequests, tab)
          IN  /\ \A R \in Range(allRequests) :
                    (R \in Range(filtered)) <=> TabRule(R, tab)
              /\ Range(filtered) \subseteq Range(allRequests)
              /\ Cardinality(Range(filtered)) = Len(filtered)
    /\ \A R \in Range(allRequests) :
          (R \in Range(filteredRequests)) <=> TabRule(R, activeStatusTab)

\* C1 witness: the Delivery Done tab shows an accepted, delivered request and
\* leaves out a request delivered but not accepted, and one accepted with no
\* delivery status.
C1_Witness ==
    /\ activeStatusTab = TabStatusDone
    /\ \E R \in Range(filteredRequests) : R.status = "accept"
    /\ \E R \in Range(allRequests) \ Range(filteredRequests) :
          R.status = "pending" /\ R.deliveryStatus = Str("done")

\* C2: the Accepted list and the Delivery Done list are disjoint, together
\* they are the requests whose status is accept, and every request of the
\* Delivery Done list has status accept.
C2_AcceptDonePartition ==
    LET accepted == Range(FilterBy(allRequests, TabStatusAccept))
        done     == Range(FilterBy(allRequests, TabStatusDone))
    IN  /\ accepted \cap done = {}
        /\ accepted \cup done = { R \in Range(allRequests) : R.status = "accept" }
        /\ \A R \in done : R.status = "accept"

\* C2 witness: a list with a request in each of the two lists.
C2_Witness ==
    /\ FilterBy(allRequests, TabStatusAccept) # <<>>
    /\ FilterBy(allRequests, TabStatusDone) # <<>>

\* the identifier a request's user reference yields, "unknown" when none
UserIdOf(R) ==
    LET ref == R.userId
    IN  IF ref.t = "string" /\ ref.v # "" THEN ref.v
        ELSE IF ref.t = "object" /\ ref._id.t = "string" /\ ref._id.v # ""
             THEN ref._id.v
             ELSE "unknown"

\* the position at which an identifier first occurs in a list
FirstAt(list, id) ==
    CHOOSE i \in DOMAIN list :
        /\ UserIdOf(list[i]) = id
        /\ \A j \in 1..(i - 1) : UserIdOf(list[j]) # id

\* C3: grouping the filtered requests yields one group per distinct user
\* identifier, the groups in the order in which their identifiers first occur
\* in the filtered list, and each group holding its user's requests in the
\* order of the filtered list.
C3_GroupingOrder ==
    LET ids == { UserIdOf(R) : R \in Range(filteredRequests) }
    IN  /\ ~grouping.threw
        /\ Len(groupedRequests) = Cardinality(ids)
        /\ { groupedRequests[g].key : g \in DOMAIN groupedRequests } = ids
        /\ \A g, h \in DOMAIN groupedRequests :
              g < h => FirstAt(filteredRequests, groupedRequests[g].key)
                         < FirstAt(filteredRequests, groupedRequests[h].key)
        /\ \A g \in DOMAIN groupedRequests :
              groupedRequests[g].requests =
                 SelectSeq(filteredRequests,
                     LAMBDA R : UserIdOf(R) = groupedRequests[g].key)

\* a user reference that yields no identifier
NoIdentifier(ref) ==
    \/ ref = Undefined
    \/ ref = Null
    \/ ref = Str("")
    \/ ref = Obj(Undefined)

\* C4: for every filtered request whose user reference yields no identifier
\* (absent or null reference, empty-string identifier, embedded summary
\* without identifier) grouping completes and the request is in the group
\* keyed "unknown".
C4_UnknownBucket ==
    \A R \in Range(filteredRequests) :
        NoIdentifier(R.userId) =>
            /\ ~grouping.threw
            /\ \E g \in DOMAIN groupedRequests :
                  /\ groupedRequests[g].key = "unknown"
                  /\ R \in Range(groupedRequests[g].requests)

\* the 0-based indices of the group sequence that page p covers
PageIndices(p) ==
    { j \in 0..(totalGroups - 1) : (p - 1) * 10 <= j /\ j < p * 10 }

\* C5: the number of pages is ceil(number of groups / 10); page p shows the
\* groups at the indices [(p-1)*10, p*10) of the group sequence, in order;
\* 25 groups make 3 pages, the third showing 5 groups.
C5_Pagination ==
    /\ totalPage * 10 >= totalGroups
    /\ (totalPage - 1) * 10 < totalGroups
    /\ \A p \in 1..(totalPage + 1) :
          LET shown == PageSlice(groupedRequests, p)
          IN  /\ Len(shown) = Cardinality(PageIndices(p))
              /\ \A j \in PageIndices(p) :
                    shown[j - (p - 1) * 10 + 1] = groupedRequests[j + 1]
    /\ Len(groupsToDisplay) = Cardinality(PageIndices(currentPage))
    /\ \A j \in PageIndices(currentPage) :
          groupsToDisplay[j - (currentPage - 1) * 10 + 1] = groupedRequests[j + 1]
    /\ totalGroups = 25 =>
          /\ totalPage = 3
          /\ Len(PageSlice(groupedRequests, 3)) = 5
          /\ (currentPage = 3 => Len(groupsToDisplay) = 5)

\* C5 witness: 25 groups, page 3 on screen with 5 groups.
C5_Witness ==
    /\ totalGroups = 25
    /\ currentPage = 3
    /\ Len(groupsToDisplay) = 5
    /\ view = "table"

\* C6: handleStatusTabChange and handleServiceTabChange leave the page of the
\* category shown after the change at 1.
C6_TabChangeResetsPage ==
    [][ ((\E status \in TabStatus : handleStatusTabChange(status))
         \/ (\E tab \in ServiceTabs : handleServiceTabChange(tab)))
        => currentPage' = 1 ]_vars

\* C6 witness: a tab was changed while page 2 was shown, and page 1 is shown.
C6_Witness == pageBeforeReset = 2 /\ currentPage = 1

\* the requests of the fetched list that meet the rule of a tab
Matching(tab) == { i \in DOMAIN allRequests : TabRule(allRequests[i], tab) }

\* C7: the badge of a status tab is the number of requests (not groups) of
\* the fetched list of the category shown that meet the rule of the tab, and
\* it stays the same when the page or the status tab changes while the
\* fetched list stays the same.
C7_TabCounts ==
    /\ [](\A tab \in TabStatus : getTabCount(tab) = Cardinality(Matching(tab)))
    /\ [][ allRequests' = allRequests =>
             \A tab \in TabStatus : getTabCount(tab)' = getTabCount(tab) ]_vars

\* C7 witness: page 2 of the Declined tab, whose badge counts 26 requests in
\* 11 groups.
C7_Witness ==
    /\ activeStatusTab = TabStatusDecline
    /\ currentPage = 2
    /\ getTabCount(TabStatusDecline) = 26
    /\ totalGroups = 11

\* C8: a delete call is dispatched only when the confirmation dialog opened
\* for that request resolves as confirmed; when the dialog is closed without
\* confirmation no delete call is dispatched.
C8_DeleteNeedsConfirmation ==
    [][ /\ \A m \in mutations' \ mutations :
              m.kind = "delete" =>
                 /\ swal.kind = "confirm"
                 /\ swal.id = m.id
                 /\ swalResult' = "confirmed"
        /\ (swal.kind = "confirm" /\ swal' # swal /\ swalResult' # "confirmed")
              => \A m \in mutations' \ mutations : m.kind # "delete" ]_vars

\* C8 witness: a delete call in flight after the dialog was confirmed.
C8_Witness ==
    /\ swalResult = "confirmed"
    /\ \E m \in mutations : m.kind = "delete"

\* C9: Delete is offered only on displayed requests whose status is accept or
\* decline, never on a pending one, and a delete is started (its dialog
\* opened) only for a displayed request whose status is accept or decline.
C9_DeleteOnlyAcceptedDeclined ==
    /\ [](\A req \in displayedRequests :
             /\ DeleteOffered(req) => req.status \in {"accept", "decline"}
             /\ req.status = "pending" => ~DeleteOffered(req))
    /\ [][ (swal'.kind = "confirm" /\ swal' # swal) =>
              \E req \in displayedRequests :
                 /\ req._id = swal'.id
                 /\ req.status \in {"accept", "decline"} ]_vars

\* C9 witness: the dialog is open for a displayed, declined request.
C9_Witness ==
    /\ swal.kind = "confirm"
    /\ \E req \in displayedRequests :
          req._id = swal.id /\ req.status = "decline"

\* C10: Accept and Decline are offered only on displayed requests whose
\* status is pending, and a status update is started only for a displayed
\* request shown as pending.
C10_UpdateOnlyPending ==
    /\ [](\A req \in displayedRequests :
             AcceptDeclineOffered(req) <=> req.status = "pending")
    /\ [][ \A m \in mutations' \ mutations :
              m.kind = "update" =>
                 /\ m.status \in {"accept", "decline"}
                 /\ \E req \in displayedRequests :
                       req._id = m.id /\ req.status = "pending" ]_vars

\* C10 witness: an accept in flight for a request displayed as pending.
C10_Witness ==
    \E m \in mutations :
        /\ m.kind = "update"
        /\ m.status = "accept"
        /\ \E req \in displayedRequests :
              req._id = m.id /\ req.status = "pending"

\* C11: when an accept, decline or delete call fails, an error message is
\* surfaced and the fetched lists, the service tab, the status tab and both
\* page numbers are what they were before the call failed.
C11_FailureKeepsViewState ==
    [][ (\E m \in mutations : MutationRejected(m)) =>
           /\ toast' = "error"
           /\ allRequests' = allRequests
           /\ query' = query
           /\ activeServiceTab' = activeServiceTab
           /\ activeStatusTab' = activeStatusTab
           /\ popPage' = popPage
           /\ cocpPage' = cocpPage ]_vars

\* C11 witness: an error message after a failed call, with page 2 of a
\* fetched list still on screen.
C11_Witness ==
    /\ toast = "error"
    /\ currentPage = 2
    /\ view = "table"

\* C12: when the fetch of the active category has failed and there is no list
\* data, the page shows the failed-to-load message, has no group and no
\* request row, and renders no pagination controls.
C12_FetchFailure ==
    (isError /\ responseData = Undefined) =>
        /\ view = "error"
        /\ groupedRequests = <<>>
        /\ totalGroups = 0
        /\ displayedRequests = {}
        /\ ~paginationShown

\* C12 witness: the list request of the shown category was rejected before any
\* response had arrived.
C12_Witness ==
    /\ isError
    /\ responseData = Undefined
    /\ ~isFetching
    /\ view = "error"

\* C13: pagination counts groups, not requests: every page holds at most 10
\* groups whatever the number of requests in them, and every group, with all
\* the filtered requests of its user, occupies exactly one slot of one page.
C13_PagesCountGroups ==
    LET groups == groupedRequests
        filtered == filteredRequests
        pages == [p \in 1..(Ceil(Len(groups), localLimit) + 1) |->
                     PageSlice(groups, p)]
        slots == { s \in (DOMAIN pages) \X (1..(localLimit + 1)) :
                     s[2] \in DOMAIN pages[s[1]] }
    IN  /\ Len(groupsToDisplay) <= 10
        /\ \A p \in DOMAIN pages : Len(pages[p]) <= 10
        /\ \A g \in DOMAIN groups :
              LET own == { s \in slots : pages[s[1]][s[2]].key = groups[g].key }
              IN  /\ Cardinality(own) = 1
                  /\ \A s \in own : pages[s[1]][s[2]] = groups[g]
                  /\ Len(groups[g].requests) =
                        Len(SelectSeq(filtered,
                                LAMBDA R : UserIdOf(R) = groups[g].key))

\* C13 witness: a page of 10 groups showing more than 10 request rows, with a
\* further page after it.
C13_Witness ==
    /\ view = "table"
    /\ activeStatusTab = TabStatusDecline
    /\ Len(groupsToDisplay) = 10
    /\ Cardinality(displayedRequests) > 10
    /\ totalPage = 2
    /\ \E g \in DOMAIN groupsToDisplay : Len(groupsToDisplay[g].requests) = 3

\* a user summary that carries an identifier
HasIdentifier(user) ==
    /\ user.t = "object"
    /\ user._id.t = "string"
    /\ user._id.v # ""

\* C14 as stated: every group produced by the grouping step has a user summary
\* that carries an identifier.
C14_EveryGroupHasIdentifier ==
    \A g \in DOMAIN groupedRequests : HasIdentifier(groupedRequests[g].user)

\* C14 as amended: every group not keyed "unknown" has a user summary that
\* carries the key of the group as its identifier, and at most one group, the
\* one keyed "unknown", has a user summary without an identifier.
C14_IdentifiedUnlessUnknown ==
    LET groups == groupedRequests
    IN  /\ \A g \in DOMAIN groups :
              groups[g].key # "unknown" =>
                 /\ HasIdentifier(groups[g].user)
                 /\ groups[g].user._id = Str(groups[g].key)
        /\ \A g, h \in DOMAIN groups :
              (~HasIdentifier(groups[g].user) /\ ~HasIdentifier(groups[h].user))
                 => g = h

\* C14 witness: a group keyed "unknown" whose user summary has no identifier,
\* shown next to a group whose user summary has one.
C14_Witness ==
    /\ view = "table"
    /\ \E g, h \in DOMAIN groupsToDisplay :
          /\ groupsToDisplay[g].key = "unknown"
          /\ ~HasIdentifier(groupsToDisplay[g].user)
          /\ HasIdentifier(groupsToDisplay[h].user)

\* C15: when the fetched list is empty and the fetch is neither loading nor
\* failed, there is no group, the number of pages is 0, the "no requests
\* found" state is what is rendered, under every status tab, and the badge of
\* every status tab is 0.
C15_EmptyList ==
    (allRequests = <<>> /\ ~isLoading /\ ~isError) =>
        /\ totalGroups = 0
        /\ totalPage = 0
        /\ view = "empty"
        /\ displayedRequests = {}
        /\ \A tab \in TabStatus :
              /\ GroupRequests(FilterBy(allRequests, tab)) = NoGroups
              /\ getTabCount(tab) = 0

\* C15 witness: an empty list has arrived for the category shown and a status
\* tab other than the initial one is selected.
C15_Witness ==
    /\ responseData = Response(<<>>)
    /\ ~isLoading /\ ~isFetching /\ ~isError
    /\ activeStatusTab = TabStatusDone
    /\ view = "empty"

\* C16: the page p of the category shown always satisfies
\* 1 <= p <= max(1, number of pages); whenever the filtered list of a fetched
\* list has at least one group, the page shown has at least one group and the
\* "no requests found" state is not rendered.
C16_PageInRange ==
    /\ 1 <= currentPage
    /\ currentPage <= Max(1, totalPage)
    /\ (totalGroups >= 1 /\ ~isLoading /\ ~isError) =>
          /\ Len(groupsToDisplay) >= 1
          /\ view # "empty"

\* the number of requests held by the first n groups
RECURSIVE SizeOfGroups(_, _)
SizeOfGroups(groups, n) ==
    IF n = 0 THEN 0
    ELSE Len(groups[n].requests) + SizeOfGroups(groups, n - 1)

\* C17: grouping neither loses nor duplicates requests: every filtered request
\* occurs in exactly one group, once; no group is empty; the sizes of the
\* groups add up to the length of the filtered list, which is the badge of
\* the status tab shown.
C17_GroupingPartitions ==
    LET groups == groupedRequests
        filtered == filteredRequests
    IN  /\ \A i \in DOMAIN filtered :
              Cardinality({ s \in (DOMAIN groups) \X (DOMAIN filtered) :
                              /\ s[2] \in DOMAIN groups[s[1]].requests
                              /\ groups[s[1]].requests[s[2]] = filtered[i] }) = 1
        /\ \A g \in DOMAIN groups : groups[g].requests # <<>>
        /\ SizeOfGroups(groups, Len(groups)) = Len(filtered)
        /\ Len(filtered) = getTabCount(activeStatusTab)

\* the identifiers listed in the fetched list of a category
ListedIds(cat) ==
    IF query[cat].data = Undefined THEN {}
    ELSE { query[cat].data.data[i]._id : i \in DOMAIN query[cat].data.data }

\* C18: an accept or decline call goes to the endpoint of the category shown
\* when the button is clicked, for a request on screen in the list of that
\* category; the confirmation dialog of a delete keeps the category and the
\* request of the click until it resolves, whatever the service tab does
\* meanwhile, and the delete call goes to the endpoint of that category for
\* that request.
C18_CallsGoToListedCategory ==
    [][ /\ \A m \in mutations' \ mutations :
              m.kind = "update" =>
                 /\ m.endpoint = activeServiceTab
                 /\ m.id \in ListedIds(m.endpoint)
                 /\ \E req \in displayedRequests : req._id = m.id
        /\ (swal.kind # "confirm" /\ swal'.kind = "confirm") =>
                 /\ swal'.tab = activeServiceTab
                 /\ swal'.id \in ListedIds(swal'.tab)
                 /\ \E req \in displayedRequests : req._id = swal'.id
        /\ (swal.kind = "confirm" /\ swal'.kind = "confirm") => swal' = swal
        /\ \A m \in mutations' \ mutations :
              m.kind = "delete" =>
                 /\ swal.kind = "confirm"
                 /\ m.endpoint = swal.tab
                 /\ m.id = swal.id ]_vars

\* C18 witness: a delete call for a request clicked under POP is in flight to
\* the POP endpoint, confirmed while COCP was the service tab shown.
C18_Witness ==
    \E m \in mutations :
        /\ m.kind = "delete"
        /\ m.endpoint = "POP"
        /\ m.shown = "COCP"
        /\ activeServiceTab = "COCP"

====
